---- MODULE Spec2Model ----
(***************************************************************************)
(* render_heatmap of geo_activity_playground/heatmap.py as a state machine. *)
(*                                                                         *)
(* Numbers.  The code computes in floating point; the model computes in    *)
(* exact integer arithmetic on these units:                                *)
(*   - a position on the Web-Mercator plane is a pair (mx, my) of integers *)
(*     in 0..WorldSize, WorldSize = 2^19 * 256 being the side of the map   *)
(*     in pixels of zoom 19, so that the fractional tile coordinate of a   *)
(*     point at zoom z is mx / 2^(27-z), my / 2^(27-z);                    *)
(*   - a latitude is an integer number of millidegrees;                    *)
(*   - a colour or grey value is an integer in 0..Unit (1.0 = Unit);       *)
(*   - a density grid is sparse: `cells` holds the pixels written so far,  *)
(*     every other pixel of the grid holds `dflt`.                         *)
(***************************************************************************)
EXTENDS Integers, Sequences, FiniteSets, TLC

\* ------------------------------------------------------------ globals
MAX_TILE_COUNT == 2000
MAX_HEATMAP_SIZE == <<2160, 3840>>
OSM_TILE_SIZE == 256
OSM_MAX_ZOOM == 19

\* ------------------------------------------------------------ bounds
\* the largest number of track points in one render
MaxPoints == 2
\* the auto-zoom loop has no bound of its own: the model explores at most
\* this many of its iterations
MaxSearchSteps == 24

\* ------------------------------------------------------------ arithmetic
Pow2(e) == 2 ^ e

Min2(a, b) == IF a <= b THEN a ELSE b

Max2(a, b) == IF a >= b THEN a ELSE b

SetMin(S) == CHOOSE a \in S : \A b \in S : a <= b

SetMax(S) == CHOOSE a \in S : \A b \in S : a >= b

\* np.round of num/den (num >= 0, den > 0): to nearest, ties to even
RoundHalfEven(num, den) ==
    LET q == num \div den
        r == num % den
    IN  IF 2 * r < den THEN q
        ELSE IF 2 * r > den THEN q + 1
        ELSE IF q % 2 = 0 THEN q ELSE q + 1

\* int() of num/den (den > 0): truncation towards zero
IntTrunc(num, den) ==
    IF num >= 0 THEN num \div den ELSE -((-num) \div den)

\* the side of the map in pixels of the deepest zoom level
WorldSize == Pow2(OSM_MAX_ZOOM) * OSM_TILE_SIZE

\* world units per tile at a zoom level
TileSpan(z) == WorldSize \div Pow2(z)

\* ------------------------------------------------------------ inputs
\* Sample track points: [lat: millidegrees, mx, my: Web-Mercator plane].
\* 1-5 lie around Bonn (1 on a tile corner of zoom 19, 2 and 3 one pixel
\* apart, 4 twelve tiles south, 5 ten tiles east), 6-8 around Singapore
\* (7 is 39 x 49 tiles and 8 is 68 x 28 tiles from 6), 9 and 10 are the
\* north-west and south-east corners of the map (longitude -180 / +180).
Locations ==
    << [lat |-> 50720,  mx |-> 69755904,  my |-> 45098240],
       [lat |-> 50720,  mx |-> 69756004,  my |-> 45098320],
       [lat |-> 50720,  mx |-> 69756005,  my |-> 45098321],
       [lat |-> 50715,  mx |-> 69755954,  my |-> 45101372],
       [lat |-> 50720,  mx |-> 69758504,  my |-> 45098310],
       [lat |-> 1300,   mx |-> 105808138, my |-> 66624010],
       [lat |-> 1267,   mx |-> 105818122, my |-> 66636554],
       [lat |-> 1281,   mx |-> 105825546, my |-> 66631178],
       [lat |-> 85051,  mx |-> 0,         my |-> 0],
       [lat |-> -85051, mx |-> WorldSize, my |-> WorldSize] >>

\* the track point arrays of up to MaxPoints points, each listed in the
\* order of the table (the points are only ever reduced by min, max, mean
\* and by the additions of the splat loop)
SortedIndexSeqs(n) ==
    {f \in [1..n -> 1..Len(Locations)] :
        \A i \in 1..n : \A j \in 1..n : i <= j => f[i] <= f[j]}

PointSeqs ==
    UNION { {[i \in 1..n |-> Locations[f[i]]] : f \in SortedIndexSeqs(n)}
            : n \in 0..MaxPoints }

ZoomArgs == {-1, 0, 21}

ActivityCounts == {1, 8}

\* ------------------------------------------------------------ collaborators
\* latlon_to_xy(lat, lon, zoom): the fractional tile coordinates, as the pair
\* of numerators over the denominator TileSpan(zoom)
latlon_to_xy(p, z) == <<p.mx, p.my>>

\* int(latlon_to_xy(..)[axis]) at zoom z of a plane coordinate
TileIndex(w, z) == IntTrunc(w, TileSpan(z))

\* the tiles that exist: x and y in [0, 2^zoom); get_tile fails for another
TileExists(z, x, y) ==
    /\ 0 <= x /\ x < Pow2(z)
    /\ 0 <= y /\ y < Pow2(z)

\* get_tile(zoom, x, y): a 256 x 256 raster; the model's tiles are of one
\* colour each (bytes R, G, B), a fixed function of the tile's identity
get_tile(z, x, y) ==
    LET h == (x + y + z) % 3
    IN  IF h = 0 THEN <<255, 255, 255>>
        ELSE IF h = 1 THEN <<170, 211, 223>>
        ELSE <<0, 0, 0>>

VARIABLES
    pc,              \* the statement render_heatmap is at
    lat_lon_data,    \* argument: the track points
    num_activities,  \* argument
    arg_zoom,        \* argument
    zoom,
    x_tile_min, x_tile_max, y_tile_min, y_tile_max,
    tested,          \* the zoom levels the auto-zoom loop has tested, in order
    tile_count,
    calls,           \* the get_tile calls made, in order: <<zoom, x, y>>
    supertile,       \* the canvas [stage, blank, blocks, cells]: its blocks'
                     \* content, and the pixels that differ from their block
    splatted,        \* how many points the splat loop has done
    data,            \* the density grid [nan, dflt, cells, num, den]: a pixel
                     \* holds its entry * num / den, or NaN
    m,               \* the clipping ceiling
    data_color       \* the colour overlay [dflt, cells]

vars == <<pc, lat_lon_data, num_activities, arg_zoom, zoom,
          x_tile_min, x_tile_max, y_tile_min, y_tile_max, tested, tile_count,
          calls, supertile, splatted, data, m, data_color>>

rectVars == <<x_tile_min, x_tile_max, y_tile_min, y_tile_max>>

inputVars == <<lat_lon_data, num_activities, arg_zoom>>

pipeVars == <<calls, supertile, splatted, data, m, data_color>>

EmptyGrid == [nan |-> FALSE, dflt |-> 0, cells |-> <<>>, num |-> 1, den |-> 1]

Init ==
    /\ pc = "start"
    /\ lat_lon_data \in PointSeqs
    /\ num_activities \in ActivityCounts
    /\ arg_zoom \in ZoomArgs
    /\ zoom = 0
    /\ x_tile_min = 0 /\ x_tile_max = 0 /\ y_tile_min = 0 /\ y_tile_max = 0
    /\ tested = <<>>
    /\ tile_count = 0
    /\ calls = <<>>
    /\ supertile = [stage |-> "none", blank |-> <<0, 0, 0>>, blocks |-> <<>>,
                    cells |-> <<>>]
    /\ splatted = 0
    /\ data = EmptyGrid
    /\ m = 0
    /\ data_color = [dflt |-> <<0, 0, 0, 0>>, cells |-> <<>>]

\* ------------------------------------------------------------ bounds of the points
Points == {lat_lon_data[i] : i \in 1..Len(lat_lon_data)}

\* np.min / np.max over axis 0, column by column.  Latitude decreases as my
\* grows, so lat_min is the largest my and lat_max the smallest.
LonMin == SetMin({p.mx : p \in Points})

LonMax == SetMax({p.mx : p \in Points})

LatMin == SetMax({p.my : p \in Points})

LatMax == SetMin({p.my : p \in Points})

\* mutant of TileRect: the rectangle is computed once, at the deepest zoom
\* level, and not again as the loop lowers the zoom
TileRect_stale(z) ==
    << TileIndex(LonMin, OSM_MAX_ZOOM), TileIndex(LonMax, OSM_MAX_ZOOM),
       TileIndex(LatMax, OSM_MAX_ZOOM), TileIndex(LatMin, OSM_MAX_ZOOM) >>

\* the tile rectangle of the bounds at zoom z: <<x_min, x_max, y_min, y_max>>
TileRect(z) ==
    << TileIndex(LonMin, z), TileIndex(LonMax, z),
       TileIndex(LatMax, z), TileIndex(LatMin, z) >>

\* the loop's exit test on a rectangle
FitsHeatmapSize(r) ==
    /\ (r[2] - r[1] + 1) * OSM_TILE_SIZE <= MAX_HEATMAP_SIZE[1]
    /\ (r[4] - r[3] + 1) * OSM_TILE_SIZE <= MAX_HEATMAP_SIZE[2]

ClampZoom(z) == Min2(z, OSM_MAX_ZOOM)

\* mutant of NextZoom: the search skips every other level
NextZoom_skip(z) == z - 2

\* zoom -= 1
NextZoom(z) == z - 1

\* Python's integers are unbounded, the model checker's are 32 bits wide: a
\* product of two counts beyond them is held as the largest integer (the
\* code only compares the product with MAX_TILE_COUNT)
MaxInt == 2147483647

RootMaxInt == 46340

Product(a, b) ==
    IF a > RootMaxInt \/ b > RootMaxInt THEN MaxInt ELSE a * b

TileCount(r) == Product(r[2] - r[1] + 1, r[4] - r[3] + 1)

\* mutant of TooManyTiles: the budget is off by one
TooManyTiles_lax(count) == count > MAX_TILE_COUNT + 1

TooManyTiles(count) == count > MAX_TILE_COUNT

\* ------------------------------------------------------------ resolving the grid
\* np.min of an empty array raises ValueError
EmptyInput ==
    /\ pc = "start"
    /\ Len(lat_lon_data) = 0
    /\ pc' = "raised"
    /\ UNCHANGED <<inputVars, zoom, rectVars, tested, tile_count, pipeVars>>

ExplicitZoom ==
    /\ pc = "start"
    /\ Len(lat_lon_data) > 0
    /\ arg_zoom > -1
    /\ zoom' = ClampZoom(arg_zoom)
    /\ LET r == TileRect(zoom')
       IN  /\ x_tile_min' = r[1] /\ x_tile_max' = r[2]
           /\ y_tile_min' = r[3] /\ y_tile_max' = r[4]
    /\ pc' = "count"
    /\ UNCHANGED <<inputVars, tested, tile_count, pipeVars>>

AutoZoomStart ==
    /\ pc = "start"
    /\ Len(lat_lon_data) > 0
    /\ ~(arg_zoom > -1)
    /\ zoom' = OSM_MAX_ZOOM
    /\ pc' = "search"
    /\ UNCHANGED <<inputVars, rectVars, tested, tile_count, pipeVars>>

\* one iteration of the while True loop
AutoZoomStep ==
    /\ pc = "search"
    /\ Len(tested) < MaxSearchSteps
    /\ tested' = Append(tested, zoom)
    /\ LET r == TileRect(zoom)
       IN  /\ x_tile_min' = r[1] /\ x_tile_max' = r[2]
           /\ y_tile_min' = r[3] /\ y_tile_max' = r[4]
           /\ IF FitsHeatmapSize(r)
              THEN pc' = "count" /\ zoom' = zoom
              ELSE pc' = "search" /\ zoom' = NextZoom(zoom)
    /\ UNCHANGED <<inputVars, tile_count, pipeVars>>

CheckTileCount ==
    /\ pc = "count"
    /\ tile_count' = TileCount(<<x_tile_min, x_tile_max, y_tile_min, y_tile_max>>)
    /\ IF TooManyTiles(tile_count')
       THEN pc' = "exited" /\ UNCHANGED supertile
       ELSE /\ pc' = "fetch"
            /\ supertile' = [stage |-> "rgb", blank |-> <<0, 0, 0>>,
                              blocks |-> <<>>, cells |-> <<>>]
    /\ UNCHANGED <<inputVars, zoom, rectVars, tested, calls, splatted, data, m,
                   data_color>>

\* ------------------------------------------------------------ assembling the mosaic
\* range(a, b) of Python
PyRange(a, b) == a..(b - 1)

Width == Cardinality(PyRange(x_tile_min, x_tile_max + 1))

Height == Cardinality(PyRange(y_tile_min, y_tile_max + 1))

\* shape of supertile (and of data): rows, columns
Rows == (y_tile_max - y_tile_min + 1) * OSM_TILE_SIZE

Cols == (x_tile_max - x_tile_min + 1) * OSM_TILE_SIZE

\* the tile the nested for loops reach after n iterations (x outer, y inner)
LoopTile(n) == <<x_tile_min + (n \div Height), y_tile_min + (n % Height)>>

\* mutant of CanvasSlot: rows and columns are swapped
CanvasSlot_swapped(x, y) ==
    LET i == x - x_tile_min
        j == y - y_tile_min
    IN  <<i * OSM_TILE_SIZE, j * OSM_TILE_SIZE>>

\* the canvas block of tile (x, y): <<first row, first column>>; the block
\* is rows r0 .. r0 + 255 and columns c0 .. c0 + 255
CanvasSlot(x, y) ==
    LET i == y - y_tile_min
        j == x - x_tile_min
    IN  <<i * OSM_TILE_SIZE, j * OSM_TILE_SIZE>>

\* one iteration of the inner loop: fetch a tile and paste it
FetchTile ==
    /\ pc = "fetch"
    /\ Len(calls) < Width * Height
    /\ LET t == LoopTile(Len(calls)) IN TileExists(zoom, t[1], t[2])
    /\ LET t == LoopTile(Len(calls))
           slot == CanvasSlot(t[1], t[2])
           tile == get_tile(zoom, t[1], t[2])
       IN  /\ calls' = Append(calls, <<zoom, t[1], t[2]>>)
           /\ supertile' =
                [supertile EXCEPT !.blocks = (slot :> tile) @@ supertile.blocks]
    /\ pc' = IF Len(calls') = Width * Height THEN "gray" ELSE "fetch"
    /\ UNCHANGED <<inputVars, zoom, rectVars, tested, tile_count, splatted,
                   data, m, data_color>>

\* get_tile raises: the exception ends the render
FetchTileFails ==
    /\ pc = "fetch"
    /\ Len(calls) < Width * Height
    /\ LET t == LoopTile(Len(calls))
       IN  /\ ~TileExists(zoom, t[1], t[2])
           /\ calls' = Append(calls, <<zoom, t[1], t[2]>>)
    /\ pc' = "raised"
    /\ UNCHANGED <<inputVars, zoom, rectVars, tested, tile_count, supertile,
                   splatted, data, m, data_color>>

\* 1.0 of a colour or grey value
Unit == 10000

\* np.sum(rgb / 255 * [0.2126, 0.7152, 0.0722])
Luminance(rgb) == (2126 * rgb[1] + 7152 * rgb[2] + 722 * rgb[3]) \div 255

\* to grayscale, invert colors, to rgb; then data = np.zeros(shape)
Grayscale ==
    /\ pc = "gray"
    /\ supertile' =
         [stage |-> "gray",
          blank |-> Unit - Luminance(supertile.blank),
          blocks |-> [s \in DOMAIN supertile.blocks |->
                         Unit - Luminance(supertile.blocks[s])],
          cells |-> <<>>]
    /\ data' = EmptyGrid
    /\ splatted' = 0
    /\ pc' = "splat"
    /\ UNCHANGED <<inputVars, zoom, rectVars, tested, tile_count, calls, m,
                   data_color>>

\* ------------------------------------------------------------ density
sigma_pixel == 1

\* world units per pixel at a zoom level
PixelSpan(z) == TileSpan(z) \div OSM_TILE_SIZE

\* np.round((xy - [x_tile_min, y_tile_min]) * OSM_TILE_SIZE).astype(int) of a
\* point: <<j, i>> = <<column, row>>
SupertileXY(p) ==
    LET xy == latlon_to_xy(p, zoom)
    IN  << RoundHalfEven(xy[1] - x_tile_min * TileSpan(zoom), PixelSpan(zoom)),
           RoundHalfEven(xy[2] - y_tile_min * TileSpan(zoom), PixelSpan(zoom)) >>

\* a slice bound of Python on an axis of length n
SliceBound(v, n) == IF v < 0 THEN Max2(v + n, 0) ELSE Min2(v, n)

\* the indices a[lo:hi] selects on an axis of length n
PySlice(lo, hi, n) == SliceBound(lo, n)..(SliceBound(hi, n) - 1)

\* the pixels data[i - sigma : i + sigma, j - sigma : j + sigma] selects
SplatWindow(i, j) ==
    PySlice(i - sigma_pixel, i + sigma_pixel, Rows)
        \X PySlice(j - sigma_pixel, j + sigma_pixel, Cols)

GridVal(g, px) == IF px \in DOMAIN g.cells THEN g.cells[px] ELSE g.dflt

\* one iteration of the splat loop
SplatPoint ==
    /\ pc = "splat"
    /\ splatted < Len(lat_lon_data)
    /\ LET ji == SupertileXY(lat_lon_data[splatted + 1])
           win == SplatWindow(ji[2], ji[1])
       IN  data' = [data EXCEPT !.cells =
                      [px \in DOMAIN data.cells \cup win |->
                          IF px \in win THEN GridVal(data, px) + 1
                          ELSE data.cells[px]]]
    /\ splatted' = splatted + 1
    /\ UNCHANGED <<pc, inputVars, zoom, rectVars, tested, tile_count, calls,
                   supertile, m, data_color>>

RECURSIVE SeqSum(_)
SeqSum(s) == IF s = <<>> THEN 0 ELSE Head(s) + SeqSum(Tail(s))

\* np.mean(lat_lon_data[:, 0]), to the millidegree
MeanLat ==
    IntTrunc(SeqSum([i \in 1..Len(lat_lon_data) |-> lat_lon_data[i].lat]),
             Len(lat_lon_data))

\* np.cos(np.radians(lat)) in thousandths, by the Taylor series to x^10
CosMilli(latMilliDeg) ==
    LET a  == IF latMilliDeg < 0 THEN -latMilliDeg ELSE latMilliDeg
        x  == (a * 17453) \div 100000
        x2 == (x * x) \div 10000
        t1 == x2 \div 2
        t2 == (t1 * x2) \div 120000
        t3 == (t2 * x2) \div 300000
        t4 == (t3 * x2) \div 560000
        t5 == (t4 * x2) \div 900000
        c  == 10000 - t1 + t2 - t3 + t4 - t5
    IN  RoundHalfEven(Max2(c, 0), 10)

\* np.round((1.0 / 5.0) * res_pixel * num_activities), with
\* res_pixel = 156543.03 * cos(mean latitude) / 2 ** zoom  (156543.03 / 5 = 31309)
Ceiling ==
    RoundHalfEven(31309 * CosMilli(MeanLat) * num_activities,
                  1000 * Pow2(zoom))

\* data[data > m] = m
Clip(v, ceil) == IF v > ceil THEN ceil ELSE v

ClipToCeiling ==
    /\ pc = "splat"
    /\ splatted = Len(lat_lon_data)
    /\ m' = Ceiling
    /\ data' = [data EXCEPT
                   !.dflt = Clip(data.dflt, m'),
                   !.cells = [px \in DOMAIN data.cells |-> Clip(data.cells[px], m')]]
    /\ pc' = "equalize"
    /\ UNCHANGED <<inputVars, zoom, rectVars, tested, tile_count, calls,
                   supertile, splatted, data_color>>

\* ------------------------------------------------------------ histogram equalization
\* the sum of the values of a function of finite domain
RECURSIVE SumFn(_)
SumFn(f) ==
    IF DOMAIN f = {} THEN 0
    ELSE LET a == CHOOSE b \in DOMAIN f : TRUE
         IN  f[a] + SumFn([b \in DOMAIN f \ {a} |-> f[b]])

\* data.size
GridSize(g) == Rows * Cols

\* the pixels of the grid that hold g.dflt
Untracked(g) == GridSize(g) - Cardinality(DOMAIN g.cells)

\* the values the grid holds
GridValues(g) ==
    {g.cells[px] : px \in DOMAIN g.cells}
        \cup (IF Untracked(g) > 0 THEN {g.dflt} ELSE {})

\* how many pixels hold v
CountOf(g, v) ==
    Cardinality({px \in DOMAIN g.cells : g.cells[px] = v})
        + (IF v = g.dflt THEN Untracked(g) ELSE 0)

\* np.histogram(data, bins): the bin of value v among `bins` bins of equal
\* width over [min, max] (the last bin closed), or over [min - 0.5, max + 0.5]
\* when min = max
HistogramBin(g, bins, v) ==
    LET lo == SetMin(GridValues(g))
        hi == SetMax(GridValues(g))
    IN  IF lo = hi THEN Min2(((2 * (v - lo) + 1) * bins) \div 2, bins - 1)
        ELSE IF v = hi THEN bins - 1
        ELSE ((v - lo) * bins) \div (hi - lo)

\* np.cumsum(data_hist)[idx], before the division by data.size
CumulatedHistogram(g, bins, idx) ==
    SumFn([v \in GridValues(g) |->
              IF HistogramBin(g, bins, v) <= idx THEN CountOf(g, v) ELSE 0])

\* data[i, j] = m * data_hist[int(data[i, j])]: the grid holds the cumulated
\* counts, its unit is m / data.size (m = 0 makes every pixel 0)
Equalize ==
    /\ pc = "equalize"
    /\ LET bins == m + 1
           Remap(v) == IF m = 0 THEN 0 ELSE CumulatedHistogram(data, bins, v)
       IN  data' = [nan |-> FALSE,
                    dflt |-> Remap(data.dflt),
                    cells |-> [px \in DOMAIN data.cells |-> Remap(data.cells[px])],
                    num |-> IF m = 0 THEN 1 ELSE m,
                    den |-> IF m = 0 THEN 1 ELSE GridSize(data)]
    /\ pc' = "smooth"
    /\ UNCHANGED <<inputVars, zoom, rectVars, tested, tile_count, calls,
                   supertile, splatted, m, data_color>>

\* ------------------------------------------------------------ gaussian_filter
\* 1 / (2 pi sigma^2) * exp(-0.5 * r2 / sigma^2) for sigma = 1, in hundredths
KernelScale == 100

KernelRadius == 2

KernelWeight(di, dj) ==
    LET r2 == di * di + dj * dj
    IN  CASE r2 = 0 -> 16
          [] r2 = 1 -> 10
          [] r2 = 2 -> 6
          [] r2 = 4 -> 2
          [] r2 = 5 -> 1
          [] OTHER -> 0

KernelOffsets == (-KernelRadius..KernelRadius) \X (-KernelRadius..KernelRadius)

KernelSum == SumFn([d \in KernelOffsets |-> KernelWeight(d[1], d[2])])

\* np.roll(gaussian, -mu): index k of an axis of length n holds the weight of
\* the offset k, or of k - n from n - mu on (mu = int(n / 2))
RolledOffset(k, n) == IF k >= n - (n \div 2) THEN k - n ELSE k

\* irfft2(rfft2(image) * rfft2(gaussian)): the circular convolution
gaussian_filter(g) ==
    LET src == DOMAIN g.cells
        dst == {<<(px[1] + d[1]) % Rows, (px[2] + d[2]) % Cols>> :
                    px \in src, d \in KernelOffsets}
        At(px) ==
            g.dflt * KernelSum
              + SumFn([q \in src |->
                    KernelWeight(RolledOffset((px[1] - q[1]) % Rows, Rows),
                                 RolledOffset((px[2] - q[2]) % Cols, Cols))
                        * (g.cells[q] - g.dflt)])
    IN  [nan |-> FALSE,
         dflt |-> g.dflt * KernelSum,
         cells |-> [px \in dst |-> At(px)],
         num |-> g.num,
         den |-> g.den * KernelScale]

Smooth ==
    /\ pc = "smooth"
    /\ data' = gaussian_filter(data)
    /\ pc' = "normalize"
    /\ UNCHANGED <<inputVars, zoom, rectVars, tested, tile_count, calls,
                   supertile, splatted, m, data_color>>

\* ------------------------------------------------------------ normalization
\* (data - data.min()) / (data.max() - data.min()); 0 / 0 is NaN
NormalizeGrid(g) ==
    LET lo == SetMin(GridValues(g))
        hi == SetMax(GridValues(g))
    IN  IF hi = lo
        THEN [nan |-> TRUE, dflt |-> 0,
              cells |-> [px \in DOMAIN g.cells |-> 0], num |-> 0, den |-> 0]
        ELSE [nan |-> FALSE, dflt |-> g.dflt - lo,
              cells |-> [px \in DOMAIN g.cells |-> g.cells[px] - lo],
              num |-> 1, den |-> hi - lo]

Normalize ==
    /\ pc = "normalize"
    /\ data' = NormalizeGrid(data)
    /\ pc' = "colorize"
    /\ UNCHANGED <<inputVars, zoom, rectVars, tested, tile_count, calls,
                   supertile, splatted, m, data_color>>

\* ------------------------------------------------------------ colouring
\* plt.get_cmap("hot"): the 256 entries of its lookup table, <<R, G, B, A>>
HotLut(idx) ==
    LET x == (idx * Unit) \div 255
    IN  << IF x >= 3651 THEN Unit ELSE 416 + ((Unit - 416) * x) \div 3651,
           IF x <= 3651 THEN 0
           ELSE IF x >= 7460 THEN Unit
           ELSE ((x - 3651) * Unit) \div (7460 - 3651),
           IF x <= 7460 THEN 0 ELSE ((x - 7460) * Unit) \div (Unit - 7460),
           Unit >>

\* cmap(value) of the value v / den in [0, 1]: entry int(value * 256), the
\* last entry for 1.0
cmap(v, den) == HotLut(IF v = den THEN 255 ELSE (v * 256) \div den)

\* cmap(NaN): the colour of bad values
BadColor == <<0, 0, 0, 0>>

\* cmap(0.0)
BackgroundColor == cmap(0, 1)

\* mutant of RemoveBackground: the colours are compared with cmap(1.0)
RemoveBackground_top(rgba) ==
    [c \in 1..4 |-> IF rgba[c] = cmap(1, 1)[c] THEN 0 ELSE rgba[c]]

\* data_color[data_color == cmap(0.0)] = 0.0: the comparison is elementwise,
\* it clears each channel that equals the background's
RemoveBackground(rgba) ==
    [c \in 1..4 |-> IF rgba[c] = BackgroundColor[c] THEN 0 ELSE rgba[c]]

Colorize ==
    /\ pc = "colorize"
    /\ LET Color(v) ==
               RemoveBackground(IF data.nan THEN BadColor ELSE cmap(v, data.den))
       IN  data_color' =
               [dflt |-> Color(data.dflt),
                cells |-> [px \in DOMAIN data.cells |-> Color(data.cells[px])]]
    /\ pc' = "blend"
    /\ UNCHANGED <<inputVars, zoom, rectVars, tested, tile_count, calls,
                   supertile, splatted, data, m>>

\* ------------------------------------------------------------ compositing
\* the canvas block that holds a pixel
BlockOf(px) ==
    << (px[1] \div OSM_TILE_SIZE) * OSM_TILE_SIZE,
       (px[2] \div OSM_TILE_SIZE) * OSM_TILE_SIZE >>

\* the content of a block of the canvas
BlockValue(st, slot) ==
    IF slot \in DOMAIN st.blocks THEN st.blocks[slot] ELSE st.blank

\* (1.0 - color) * grey + color, for the channels R, G, B
Blend(rgba, grey) ==
    [c \in 1..3 |-> ((Unit - rgba[c]) * grey + rgba[c] * Unit) \div Unit]

\* the loop over the three channels: the pixels of data_color.cells get their
\* own colour, every other pixel of a block the colour data_color.dflt
Composite ==
    /\ pc = "blend"
    /\ supertile' =
         [stage |-> "final",
          blank |-> Blend(data_color.dflt, supertile.blank),
          blocks |-> [s \in DOMAIN supertile.blocks |->
                         Blend(data_color.dflt, supertile.blocks[s])],
          cells |-> [px \in DOMAIN data_color.cells |->
                        Blend(data_color.cells[px],
                              BlockValue(supertile, BlockOf(px)))]]
    /\ pc' = "done"
    /\ UNCHANGED <<inputVars, zoom, rectVars, tested, tile_count, calls,
                   splatted, data, m, data_color>>

\* the pixel of the returned image
ResultPixel(st, px) ==
    IF px \in DOMAIN st.cells THEN st.cells[px] ELSE BlockValue(st, BlockOf(px))

Next ==
    \/ EmptyInput
    \/ ExplicitZoom
    \/ AutoZoomStart
    \/ AutoZoomStep
    \/ CheckTileCount
    \/ FetchTile
    \/ FetchTileFails
    \/ Grayscale
    \/ SplatPoint
    \/ ClipToCeiling
    \/ Equalize
    \/ Smooth
    \/ Normalize
    \/ Colorize
    \/ Composite

Spec == Init /\ [][Next]_vars

\* ============================================================ the claims
\* the statements of render_heatmap before the tile rectangle is resolved
Unresolved == {"start", "search", "raised"}

\* the statements after the tile count check has let the render pass
Passed == {"fetch", "gray", "splat", "equalize", "smooth", "normalize",
           "colorize", "blend", "done"}

RectWidth == x_tile_max - x_tile_min + 1

RectHeight == y_tile_max - y_tile_min + 1

\* C1: whenever the resolved rectangle holds more than 2000 tiles the render
\* has exited with no get_tile call made and no canvas built; whenever a
\* get_tile call has been made or an image is returned, the rectangle holds
\* at most 2000 tiles.
Thm_C1 ==
    LET count == Product(RectWidth, RectHeight)
    IN  /\ (pc \notin Unresolved \cup {"count"} /\ count > 2000)
              => (pc = "exited" /\ calls = <<>> /\ supertile.stage = "none")
        /\ pc = "exited" => (calls = <<>> /\ supertile.stage = "none")
        /\ (calls # <<>> \/ pc = "done") => count <= 2000

\* a render of 2001 tiles has exited
Wit_C1 == pc = "exited" /\ tile_count = 2001 /\ calls = <<>>

\* C2 (as stated): in auto mode the resolved mosaic is at most 3840 pixels
\* wide and at most 2160 pixels high, unless the search ended at zoom 0.
CE_C2 ==
    (arg_zoom < 0 /\ pc \notin Unresolved /\ zoom # 0)
        => (RectWidth * 256 <= 3840 /\ RectHeight * 256 <= 2160)

\* the test of the loop, written out for a zoom level
PassesSizeTest(z) ==
    LET r == << TileIndex(LonMin, z), TileIndex(LonMax, z),
                TileIndex(LatMax, z), TileIndex(LatMin, z) >>
    IN  /\ (r[2] - r[1] + 1) * 256 <= 2160
        /\ (r[4] - r[3] + 1) * 256 <= 3840

\* C3: in auto mode the zoom levels are tested in the order 19, 18, 17, ...;
\* every level tested before the current one fails the size test; the level
\* the search returns passes it, so it is the largest level of 0..19 that
\* passes (and 0 if none does).
Thm_C3 ==
    arg_zoom < 0 =>
        /\ \A i \in 1..Len(tested) : tested[i] = 19 - (i - 1)
        /\ pc = "search" =>
              /\ zoom = 19 - Len(tested)
              /\ \A z \in (zoom + 1)..19 : ~PassesSizeTest(z)
        /\ pc \notin Unresolved =>
              /\ tested # <<>> /\ tested[Len(tested)] = zoom
              /\ PassesSizeTest(zoom)
              /\ \A z \in (zoom + 1)..19 : ~PassesSizeTest(z)
              /\ (\A z \in 0..19 : ~PassesSizeTest(z)) => zoom = 0

\* the search has gone down at least two levels and stopped
Wit_C3 == arg_zoom < 0 /\ pc = "count" /\ zoom < 18 /\ Len(tested) > 2

\* C4: the auto-zoom search runs at most 20 iterations and neither tests nor
\* holds a zoom level below 0.
Thm_C4 ==
    arg_zoom < 0 =>
        /\ Len(tested) <= 20
        /\ \A i \in 1..Len(tested) : tested[i] >= 0
        /\ zoom >= 0

\* the search has ended for bounds that span the whole map, from longitude
\* -180 to longitude +180
Wit_C4 ==
    /\ arg_zoom < 0 /\ pc = "count"
    /\ LonMin = 0 /\ LonMax = WorldSize /\ LatMax = 0 /\ LatMin = WorldSize

\* the splat loop has written to the grid
PointsHit ==
    \E k \in 1..splatted :
        LET ji == SupertileXY(lat_lon_data[k])
        IN  SplatWindow(ji[2], ji[1]) # {}

\* C5 (as stated): when the ceiling m is 0 and clips every point away, the
\* normalized density grid holds zeros and no NaN.
CE_C5 ==
    (pc \in {"colorize", "blend", "done"} /\ m = 0 /\ PointsHit)
        => (~data.nan /\ data.dflt = 0
              /\ \A px \in DOMAIN data.cells : data.cells[px] = 0)

\* C6 (as stated): a render of an empty point set does not raise.
CE_C6 == Len(lat_lon_data) = 0 => pc # "raised"

\* C7: the compositing step leaves every pixel of normalized density 0.0 as
\* it is in the inverted grayscale mosaic, in the three channels.
Thm_C7 ==
    [][(pc = "blend" /\ ~data.nan) =>
          /\ \A px \in DOMAIN data.cells :
                data.cells[px] = 0 =>
                    LET g == BlockValue(supertile, BlockOf(px))
                    IN  ResultPixel(supertile', px) = <<g, g, g>>
          /\ (Untracked(data) > 0 /\ data.dflt = 0) =>
                /\ \A s \in DOMAIN supertile.blocks :
                      supertile'.blocks[s]
                          = <<supertile.blocks[s], supertile.blocks[s],
                              supertile.blocks[s]>>
                /\ DOMAIN supertile'.blocks = DOMAIN supertile.blocks
      ]_vars

\* an image is returned in which a pixel next to the track has density 0.0
\* and lies on a tile that is not black
Wit_C7 ==
    /\ pc = "done" /\ ~data.nan
    /\ \E px \in DOMAIN data.cells :
          /\ data.cells[px] = 0
          /\ ResultPixel(supertile, px)[1] < Unit
          /\ \E qx \in DOMAIN data.cells : data.cells[qx] > 0

\* the pixels of the 2 * sigma square around pixel (i, j) that lie in the grid
SquareInGrid(i, j) ==
    {px \in ((i - sigma_pixel)..(i + sigma_pixel - 1))
              \X ((j - sigma_pixel)..(j + sigma_pixel - 1)) :
        px[1] >= 0 /\ px[1] < Rows /\ px[2] >= 0 /\ px[2] < Cols}

\* C8 (as stated): every point splatted so far has added 1 to each pixel of
\* its square, so the grid sums to the sizes of the squares.
CE_C8 ==
    pc = "splat" =>
        SumFn(data.cells)
          = SumFn([k \in 1..splatted |->
                LET ji == SupertileXY(lat_lon_data[k])
                IN  Cardinality(SquareInGrid(ji[2], ji[1]))])

\* how many pixels of the grid hold a value <= v
CountUpTo(g, v) ==
    SumFn([u \in GridValues(g) |-> IF u <= v THEN CountOf(g, u) ELSE 0])

\* C9 (as stated): equalization maps a pixel of clipped value v to
\* m * (number of pixels of value <= v) / (number of pixels), in every grid
\* that holds a point, also when its largest value is below m.
CE_C9 ==
    [][(pc = "equalize" /\ m > 0 /\ SetMax(GridValues(data)) > 0) =>
          /\ data'.num = m /\ data'.den = GridSize(data)
          /\ \A px \in DOMAIN data.cells :
                data'.cells[px] = CountUpTo(data, data.cells[px])
          /\ data'.dflt = CountUpTo(data, data.dflt)
      ]_vars

\* C10: get_tile is called with the resolved zoom, once for each tile of the
\* rectangle reached so far and for no other; each tile fills the block at
\* rows (y - y_min) * 256, columns (x - x_min) * 256, which lies in the
\* canvas; the blocks are as many as the calls (distinct tiles, distinct
\* blocks) and after the loop as many as the tiles of the rectangle, so they
\* cover the canvas; grayscale and density work start only then.
Thm_C10 ==
    pc \in Passed =>
        LET n == Len(calls)
        IN  /\ arg_zoom >= 0 => zoom = Min2(arg_zoom, 19)
            /\ \A k \in 1..n :
                  LET c == calls[k]
                      slot == <<(c[3] - y_tile_min) * 256,
                                (c[2] - x_tile_min) * 256>>
                  IN  /\ c[1] = zoom
                      /\ x_tile_min <= c[2] /\ c[2] <= x_tile_max
                      /\ y_tile_min <= c[3] /\ c[3] <= y_tile_max
                      /\ slot \in DOMAIN supertile.blocks
                      /\ slot[1] + 256 <= Rows /\ slot[2] + 256 <= Cols
                      /\ pc = "fetch" =>
                            supertile.blocks[slot] = get_tile(c[1], c[2], c[3])
            /\ Cardinality({calls[k] : k \in 1..n}) = n
            /\ Cardinality(DOMAIN supertile.blocks) = n
            /\ pc = "fetch" =>
                  (supertile.stage = "rgb" /\ data = EmptyGrid /\ splatted = 0)
            /\ pc # "fetch" =>
                  /\ n = RectWidth * RectHeight
                  /\ n * 256 * 256 = Rows * Cols

\* the 2000 tiles of a render asked at zoom 21 have been fetched
Wit_C10 == pc = "gray" /\ Len(calls) = 2000 /\ arg_zoom = 21 /\ zoom = 19
====
